---- MODULE Spec2Model ----
(***************************************************************************)
(* Board relay of app/main.py (board_ws): one coroutine per WebSocket,     *)
(* run by a single-threaded event loop.  A coroutine runs without          *)
(* interruption from one `await` to the next; every action below is one    *)
(* such uninterrupted block.  Python lists are objects: board_states maps  *)
(* a lesson block to a reference into `lists`, so that rebinding           *)
(* (board_states[id] = []) and in-place mutation (.append) stay distinct.  *)
(* A frame counts as delivered when the awaited send_json returns.  What a *)
(* send to a peer that is gone does depends on the server underneath: it   *)
(* returns silently, raises WebSocketDisconnect, or raises something else; *)
(* all three are possible steps.                                           *)
(***************************************************************************)
EXTENDS Integers, Sequences, FiniteSets, TLC

\* ---- bounds -------------------------------------------------------------
NConn == 3          \* WebSocket objects that may ever be accepted
MaxRecv == 2        \* inbound JSON objects the hub reads in one run
MaxPeerEvents == 1  \* times a peer goes away or stalls in one run
Steps == 2          \* resolution of the metrics: the value k stands for k/(2*Steps)
NBlocks == 2        \* lesson blocks started in one run
MaxEvents == 2      \* task events recorded in one run
NReq == 2           \* finish requests in one run, concurrent or in sequence

Conns == 1..NConn
Blocks == {"A", "B"}    \* lesson_block_id path values in use

\* "type" values of inbound objects: two recognised kinds, one unrecognised
Types == {"draw", "clear", "zap"}

\* ---- state --------------------------------------------------------------
VARIABLES
    board_connections,  \* dict: lesson_block_id -> list of WebSocket
    board_states,       \* dict: lesson_block_id -> reference of a list object
    lists,              \* the list objects board_states has ever been bound to
    pc,                 \* per WebSocket: where its board_ws coroutine is suspended
    lesson_block_id,    \* per WebSocket: the path parameter of its handler
    replay,             \* per WebSocket: iterator of the `for action in ...` loop
    bcast,              \* per WebSocket: data / conn / iterator of the broadcast loop
    chan,               \* per WebSocket: state of the peer's transport
    received,           \* history variable: every object receive_json returned, in order
    delivered,          \* history variable: per WebSocket, what send_json handed to its peer
    peer_events,        \* history variable: how often a peer went away or stalled
    raised,             \* history variable: some send_json call has raised
    joined              \* history variable: per WebSocket, Len(received) and the
                        \* participants already listed when it registered

\* the persistent store and the requests of the HTTP endpoints
VARIABLES
    lesson_blocks,      \* table lesson_blocks: id -> row (student_id, finished_at)
    task_events,        \* table task_events: the lesson_block_id of every row
    neuro_profiles,     \* table neuro_profiles: the student_ids that have a row
    block_indices,      \* table block_indices: lesson_block_id -> row
    clock,              \* datetime.utcnow(), as a counter
    req,                \* per finish_block call: its position and local variables
    call                \* one call of a function of app/services and its result

boardVars == <<board_connections, board_states, lists, pc, lesson_block_id,
               replay, bcast, chan, received, delivered, peer_events, raised, joined>>

storeVars == <<lesson_blocks, task_events, neuro_profiles, block_indices>>

pipelineVars == <<lesson_blocks, task_events, neuro_profiles, block_indices,
                  clock, req, call>>

vars == <<board_connections, board_states, lists, pc, lesson_block_id,
          replay, bcast, chan, received, delivered, peer_events, raised, joined,
          lesson_blocks, task_events, neuro_profiles, block_indices, clock, req, call>>

NoData == [type |-> "none", id |-> 0]
NoReplay == [ref |-> 0, idx |-> 0]
NoBcast == [data |-> NoData, conn |-> 0, idx |-> 0]

\* ---- helpers ------------------------------------------------------------
\* a remove that removes nothing
RemoveNothing(l, x) == l

\* list.remove(x): drop the first occurrence of x
RECURSIVE Remove(_, _)
Remove(l, x) ==
    IF l = <<>> THEN <<>>
    ELSE IF Head(l) = x THEN Tail(l)
    ELSE <<Head(l)>> \o Remove(Tail(l), x)

Range(l) == {l[i] : i \in 1..Len(l)}

\* the object board_states[id] currently refers to
History(b) == lists[board_states[b]]

\* `if conn != websocket` of the broadcast loop
SkipsNever(conn, websocket) == FALSE
Skips(conn, websocket) == conn = websocket

\* The broadcast loop resumed with its list iterator at position i (1-based):
\* the position of the next element it awaits a send on, 0 when the loop ends.
\* Elements equal to the sender are passed over without suspending.
RECURSIVE NextTarget(_, _, _)
NextTarget(conns, i, websocket) ==
    IF i > Len(conns) THEN 0
    ELSE IF Skips(conns[i], websocket) THEN NextTarget(conns, i + 1, websocket)
    ELSE i

\* pc and loop state of handler p once its broadcast loop resumes at position i
Resume(p, conns, i, data) ==
    LET j == NextTarget(conns, i, p) IN
    IF j = 0
    THEN /\ pc' = [pc EXCEPT ![p] = "recv"]
         /\ bcast' = [bcast EXCEPT ![p] = NoBcast]
    ELSE /\ pc' = [pc EXCEPT ![p] = "send"]
         /\ bcast' = [bcast EXCEPT ![p] = [data |-> data, conn |-> conns[j],
                                            idx |-> j + 1]]

Deliver(q, a, live) ==
    [delivered EXCEPT ![q] = Append(@, [id |-> a.id, type |-> a.type, live |-> live])]

\* ---- app/services: indices and recommendation ----------------------------
\* Metrics in [0,1] are the grid values 0..Unit (k stands for k/Unit, so that
\* Steps stands for 0.5); with the weights taken in tenths an index in [0,1]
\* is a value 0..One.
Unit == 2 * Steps
Grid == 0..Unit
One == 10 * Unit
Indices == 0..One

Min(a, b) == IF a <= b THEN a ELSE b
Max(a, b) == IF a >= b THEN a ELSE b

\* min(1.0, max(0.0, x))
Clamp01(x) == Min(One, Max(0, x))

\* the overload index with the accuracy term not inverted
calc_overload_index_raw_accuracy(accuracy, norm_time, skip_rate, sensory_mismatch) ==
    Clamp01(4 * accuracy + 3 * norm_time + 2 * skip_rate + 1 * sensory_mismatch)

calc_overload_index(accuracy, norm_time, skip_rate, sensory_mismatch) ==
    Clamp01(4 * (Unit - accuracy) + 3 * norm_time + 2 * skip_rate + 1 * sensory_mismatch)

calc_readiness_index(accuracy, norm_time, fatigue_proxy) ==
    Clamp01(5 * accuracy + 3 * (Unit - norm_time) + 2 * (Unit - fatigue_proxy))

\* the classifier with the readiness test first
make_recommendation_readiness_first(overload_index, readiness_index) ==
    IF readiness_index > 7 * Unit THEN "increase"
    ELSE IF overload_index > 7 * Unit THEN "reduce"
    ELSE "keep"

\* the "action" of the dict returned: "reduce" for "Снизить сложность",
\* "increase" for "Повысить сложность", "keep" for "Оставить как есть"
make_recommendation(overload_index, readiness_index) ==
    IF overload_index > 7 * Unit THEN "reduce"
    ELSE IF readiness_index > 7 * Unit THEN "increase"
    ELSE "keep"

NoCall == [fn |-> "none", args |-> <<>>, done |-> FALSE, result |-> 0]
Requests == 1..NReq
NoReq ==
    [pc |-> "idle", block_id |-> 0, student_id |-> "none", accuracy |-> 0,
     skip_rate |-> 0, duration |-> 0, overload |-> 0, readiness |-> 0,
     status |-> 0, detail |-> "none", recommendation |-> "none"]

\* ---- initial state ------------------------------------------------------
\* an empty store, no request, no call
PipelineInit ==
    /\ lesson_blocks = <<>>
    /\ task_events = <<>>
    /\ neuro_profiles = <<>>
    /\ block_indices = <<>>
    /\ clock = 0
    /\ call = NoCall

Init ==
    /\ PipelineInit
    /\ req = [r \in Requests |-> NoReq]
    /\ board_connections = [b \in {} |-> <<>>]
    /\ board_states = [b \in {} |-> 0]
    /\ lists = <<>>
    /\ pc = [p \in Conns |-> "new"]
    /\ lesson_block_id = [p \in Conns |-> "none"]
    /\ replay = [p \in Conns |-> NoReplay]
    /\ bcast = [p \in Conns |-> NoBcast]
    /\ chan = [p \in Conns |-> "open"]
    /\ received = <<>>
    /\ delivered = [p \in Conns |-> <<>>]
    /\ peer_events = 0
    /\ raised = FALSE
    /\ joined = [p \in Conns |-> [at |-> 0, peers |-> {}]]

\* ---- board_ws, lines 35-45: accept, register, start the replay -----------
\* WebSocket objects are numbered in the order the server accepts them.
Connect(p, b) ==
    /\ pc[p] = "new"
    /\ \A q \in Conns : q < p => pc[q] # "new"
    /\ LET fresh == b \notin DOMAIN board_connections
           ref == IF fresh THEN Len(lists) + 1 ELSE board_states[b]
           conns == IF fresh THEN <<>> ELSE board_connections[b]
           hist == IF fresh THEN <<>> ELSE lists[ref]
       IN /\ lists' = IF fresh THEN Append(lists, <<>>) ELSE lists
          /\ board_states' = [x \in DOMAIN board_states \cup {b} |->
                                IF x = b THEN ref ELSE board_states[x]]
          /\ board_connections' = [x \in DOMAIN board_connections \cup {b} |->
                                IF x = b THEN Append(conns, p) ELSE board_connections[x]]
          /\ IF hist = <<>>
             THEN /\ pc' = [pc EXCEPT ![p] = "recv"]
                  /\ replay' = replay
             ELSE /\ pc' = [pc EXCEPT ![p] = "replay"]
                  /\ replay' = [replay EXCEPT ![p] = [ref |-> ref, idx |-> 1]]
          /\ joined' = [joined EXCEPT ![p] = [at |-> Len(received), peers |-> Range(conns)]]
    /\ lesson_block_id' = [lesson_block_id EXCEPT ![p] = b]
    /\ UNCHANGED <<bcast, chan, received, delivered, peer_events, raised>>
    /\ UNCHANGED pipelineVars

\* line 45 completes: the frame has reached the peer (or was written to a
\* transport whose peer is gone, which some servers accept silently), and
\* line 44 asks the list iterator for the next element of the list object it
\* was created on, as that object is now.  A stalled peer accepts nothing.
ReplaySend(p) ==
    /\ pc[p] = "replay"
    /\ chan[p] \in {"open", "gone"}
    /\ delivered' = IF chan[p] = "open"
                    THEN Deliver(p, lists[replay[p].ref][replay[p].idx], FALSE)
                    ELSE delivered
    /\ IF replay[p].idx + 1 <= Len(lists[replay[p].ref])
       THEN /\ replay' = [replay EXCEPT ![p].idx = @ + 1]
            /\ pc' = pc
       ELSE /\ replay' = [replay EXCEPT ![p] = NoReplay]
            /\ pc' = [pc EXCEPT ![p] = "recv"]
    /\ UNCHANGED <<board_connections, board_states, lists, lesson_block_id,
                   bcast, chan, received, peer_events, raised, joined>>
    /\ UNCHANGED pipelineVars

\* line 45 raises (peer gone): outside the try block, so the handler dies
\* with the WebSocket still in board_connections
ReplayRaise(p) ==
    /\ pc[p] = "replay"
    /\ chan[p] = "gone"
    /\ pc' = [pc EXCEPT ![p] = "crashed"]
    /\ replay' = [replay EXCEPT ![p] = NoReplay]
    /\ raised' = TRUE
    /\ UNCHANGED <<board_connections, board_states, lists, lesson_block_id,
                   bcast, chan, received, delivered, peer_events, joined>>
    /\ UNCHANGED pipelineVars

\* ---- board_ws, lines 49-53: one inbound object -----------------------------
\* line 50
IsClear(data) == data.type = "clear"

\* an append that is lost
ListsAfterLost(b, data) ==
    IF data.type = "clear" THEN Append(lists, <<>>) ELSE lists

\* lines 50-53, effect on the list objects: a clear allocates a new empty
\* list, anything else is appended in place to the current one
ListsAfter(b, data) ==
    IF IsClear(data)
    THEN Append(lists, <<>>)
    ELSE [lists EXCEPT ![board_states[b]] = Append(@, data)]

\* a clear that leaves the key bound to the old list
StatesAfterNoRebind(b, data) == board_states

\* a clear that resets every board
StatesAfterRebindAll(b, data) ==
    IF data.type = "clear"
    THEN [x \in DOMAIN board_states |-> Len(lists) + 1]
    ELSE board_states

\* lines 50-51, effect on the dict: a clear rebinds the key to the new list
StatesAfter(b, data) ==
    IF IsClear(data)
    THEN [board_states EXCEPT ![b] = Len(lists) + 1]
    ELSE board_states

\* lines 49-56 up to the first suspended send: receive_json returns a JSON
\* object of type t, the history is updated, the broadcast loop starts
Receive(p, t) ==
    /\ pc[p] = "recv"
    /\ chan[p] # "gone"
    /\ Len(received) < MaxRecv
    /\ LET b == lesson_block_id[p]
           data == [type |-> t, id |-> Len(received) + 1]
       IN /\ lists' = ListsAfter(b, data)
          /\ board_states' = StatesAfter(b, data)
          /\ received' = Append(received,
                 [type |-> t, id |-> data.id, from |-> p, block |-> b,
                  regs |-> Range(board_connections[b])])
          /\ Resume(p, board_connections[b], 1, data)
    /\ UNCHANGED <<board_connections, lesson_block_id, replay, chan, delivered, peer_events, raised, joined>>
    /\ UNCHANGED pipelineVars

\* line 49 raises something other than WebSocketDisconnect (the text is not
\* JSON: json.JSONDecodeError; the JSON is not an object: AttributeError at
\* line 50).  Nothing catches it: the handler ends, the server closes the
\* socket, the WebSocket stays in board_connections.
ReceiveMalformed(p) ==
    /\ pc[p] = "recv"
    /\ chan[p] # "gone"
    /\ pc' = [pc EXCEPT ![p] = "crashed"]
    /\ chan' = [chan EXCEPT ![p] = "gone"]
    /\ UNCHANGED <<board_connections, board_states, lists, lesson_block_id,
                   replay, bcast, received, delivered, peer_events, raised, joined>>
    /\ UNCHANGED pipelineVars

\* lines 49, 57-58: receive_json raises WebSocketDisconnect
RecvDisconnect(p) ==
    /\ pc[p] = "recv"
    /\ chan[p] = "gone"
    /\ board_connections' = [board_connections EXCEPT
                               ![lesson_block_id[p]] = Remove(@, p)]
    /\ pc' = [pc EXCEPT ![p] = "done"]
    /\ UNCHANGED <<board_states, lists, lesson_block_id, replay, bcast, chan,
                   received, delivered, peer_events, raised, joined>>
    /\ UNCHANGED pipelineVars

\* ---- board_ws, lines 54-56: the broadcast loop ----------------------------
\* line 56 completes: the frame has reached conn's peer (or was written to a
\* transport whose peer is gone), and line 54 asks the list iterator for the
\* next element of board_connections[lesson_block_id] as it is now.  A
\* stalled peer accepts nothing, so the send to it does not complete.
SendComplete(p) ==
    /\ pc[p] = "send"
    /\ chan[bcast[p].conn] \in {"open", "gone"}
    /\ delivered' = IF chan[bcast[p].conn] = "open"
                    THEN Deliver(bcast[p].conn, bcast[p].data, TRUE)
                    ELSE delivered
    /\ Resume(p, board_connections[lesson_block_id[p]], bcast[p].idx, bcast[p].data)
    /\ UNCHANGED <<board_connections, board_states, lists, lesson_block_id,
                   replay, chan, received, peer_events, raised, joined>>
    /\ UNCHANGED pipelineVars

\* line 56 raises because conn's peer is gone.  What is raised depends on the
\* server and Starlette versions: WebSocketDisconnect is caught at line 57,
\* which removes the SENDER from the list; anything else ends the handler
\* with the sender still listed.  Either way the sender's socket is closed.
SendRaise(p, exc) ==
    /\ pc[p] = "send"
    /\ chan[bcast[p].conn] = "gone"
    /\ IF exc = "WebSocketDisconnect"
       THEN /\ board_connections' = [board_connections EXCEPT
                                       ![lesson_block_id[p]] = Remove(@, p)]
            /\ pc' = [pc EXCEPT ![p] = "done"]
       ELSE /\ board_connections' = board_connections
            /\ pc' = [pc EXCEPT ![p] = "crashed"]
    /\ bcast' = [bcast EXCEPT ![p] = NoBcast]
    /\ chan' = [chan EXCEPT ![p] = "gone"]
    /\ raised' = TRUE
    /\ UNCHANGED <<board_states, lists, lesson_block_id, replay, received, delivered, peer_events, joined>>
    /\ UNCHANGED pipelineVars

\* ---- the peers ------------------------------------------------------------
Running(p) == pc[p] \in {"replay", "recv", "send"}

\* the client goes away (closes, or its transport breaks)
PeerGone(p) ==
    /\ Running(p)
    /\ peer_events < MaxPeerEvents
    /\ chan[p] # "gone"
    /\ chan' = [chan EXCEPT ![p] = "gone"]
    /\ peer_events' = peer_events + 1
    /\ UNCHANGED <<board_connections, board_states, lists, pc, lesson_block_id,
                   replay, bcast, received, delivered, raised, joined>>
    /\ UNCHANGED pipelineVars

\* the client stops reading: sends to it no longer complete
PeerStall(p) ==
    /\ Running(p)
    /\ peer_events < MaxPeerEvents
    /\ chan[p] = "open"
    /\ chan' = [chan EXCEPT ![p] = "stalled"]
    /\ peer_events' = peer_events + 1
    /\ UNCHANGED <<board_connections, board_states, lists, pc, lesson_block_id,
                   replay, bcast, received, delivered, raised, joined>>
    /\ UNCHANGED pipelineVars

Exceptions == {"WebSocketDisconnect", "other"}

Next ==
    \/ \E p \in Conns, b \in Blocks : Connect(p, b)
    \/ \E p \in Conns : ReplaySend(p)
    \/ \E p \in Conns : ReplayRaise(p)
    \/ \E p \in Conns, t \in Types : Receive(p, t)
    \/ \E p \in Conns : ReceiveMalformed(p)
    \/ \E p \in Conns : RecvDisconnect(p)
    \/ \E p \in Conns : SendComplete(p)
    \/ \E p \in Conns, exc \in Exceptions : SendRaise(p, exc)
    \/ \E p \in Conns : PeerGone(p)
    \/ \E p \in Conns : PeerStall(p)

Spec == Init /\ [][Next]_vars

\* The event loop resumes every coroutine whose awaited call can complete.
\* What the peers do (send an object, go away, stall) is not under its control.
Fairness ==
    \A p \in Conns :
        /\ WF_vars(ReplaySend(p) \/ ReplayRaise(p))
        /\ WF_vars(SendComplete(p) \/ \E exc \in Exceptions : SendRaise(p, exc))
        /\ WF_vars(RecvDisconnect(p))

FairSpec == Spec /\ Fairness

\* ==== properties ============================================================
\* the entries of l that satisfy live = v, in order
RECURSIVE Kind(_, _)
Kind(l, v) ==
    IF l = <<>> THEN <<>>
    ELSE IF Head(l).live = v THEN <<Head(l)>> \o Kind(Tail(l), v)
    ELSE Kind(Tail(l), v)

Ids(l) == [i \in 1..Len(l) |-> l[i].id]

\* what the hub has been told about block b by its first n inbound objects:
\* the non-clear ones since the last clear, in receipt order
RECURSIVE HistoryAt(_, _)
HistoryAt(b, n) ==
    IF n = 0 THEN <<>>
    ELSE IF received[n].block # b THEN HistoryAt(b, n - 1)
    ELSE IF received[n].type = "clear" THEN <<>>
    ELSE Append(HistoryAt(b, n - 1), [type |-> received[n].type, id |-> received[n].id])

\* the last of the first n inbound objects that belongs to block b, 0 if none
RECURSIVE LastOf(_, _)
LastOf(b, n) ==
    IF n = 0 THEN 0
    ELSE IF received[n].block = b THEN n
    ELSE LastOf(b, n - 1)

ClearedAt(b, n) == LastOf(b, n) # 0 /\ received[LastOf(b, n)].type = "clear"

Registered(p) == pc[p] \in {"replay", "recv", "send", "crashed"}

\* C6: a block's history never holds a "clear" action; once the last object
\* received for a block is a clear its history is empty; a WebSocket that
\* registers right after a clear is replayed nothing.
C6_ClearResetsHistory ==
    /\ \A b \in DOMAIN board_states :
          /\ \A i \in 1..Len(History(b)) : History(b)[i].type # "clear"
          /\ ClearedAt(b, Len(received)) => History(b) = <<>>
    /\ \A p \in Conns :
          (pc[p] # "new" /\ ClearedAt(lesson_block_id[p], joined[p].at))
             => /\ Kind(delivered[p], FALSE) = <<>>
                /\ pc[p] # "replay"

\* C6 witness: a drawing was received, then a clear, then a WebSocket
\* registered and reached its receive loop
C6_Witness ==
    \E p \in Conns :
        /\ pc[p] = "recv"
        /\ joined[p].at >= 2
        /\ received[joined[p].at].type = "clear"
        /\ received[joined[p].at - 1].type # "clear"

\* C7: at every moment a block's history is exactly the non-clear objects
\* (unrecognised types included) received since the last clear, in receipt
\* order, each once; and its participant list holds exactly the WebSockets
\* that registered and did not remove themselves, each once.
C7_NoRace ==
    \A b \in DOMAIN board_states :
        /\ History(b) = HistoryAt(b, Len(received))
        /\ Range(board_connections[b]) =
              {p \in Conns : lesson_block_id[p] = b /\ Registered(p)}
        /\ Cardinality(Range(board_connections[b])) = Len(board_connections[b])

\* C7 witness: two senders' objects, one of unrecognised type, are both in
\* the history while a broadcast loop is suspended in mid-iteration
C7_Witness ==
    \E b \in DOMAIN board_states :
        /\ Len(History(b)) = 2
        /\ received[History(b)[1].id].from # received[History(b)[2].id].from
        /\ \E i \in 1..2 : History(b)[i].type = "zap"
        /\ \E p \in Conns : pc[p] = "send"

\* C8: no live (broadcast) delivery to a WebSocket carries an object that
\* the hub received from that same WebSocket.
C8_SenderExcluded ==
    \A p \in Conns : \A i \in 1..Len(delivered[p]) :
        delivered[p][i].live => received[delivered[p][i].id].from # p

\* C8 witness: a sender that is still listed has finished a broadcast that
\* reached two other participants
C8_Witness ==
    \E p \in Conns : \E n \in 1..Len(received) :
        /\ received[n].from = p
        /\ pc[p] = "recv"
        /\ p \in Range(board_connections[lesson_block_id[p]])
        /\ Cardinality({q \in Conns \ {p} : \E i \in 1..Len(delivered[q]) :
                           delivered[q][i].live /\ delivered[q][i].id = n}) >= 2

\* handler p takes the except branch (line 58) / registers (line 41)
Leaves(p) == pc[p] # "done" /\ pc'[p] = "done"
Joins(p) == pc[p] = "new" /\ pc'[p] # "new"

\* C10: a disconnect removes the WebSocket from its block's participant list
\* and leaves the block's history as it was; a WebSocket that registers,
\* also after every earlier participant has left, starts a replay of that
\* unchanged history from its first element, and what the replay delivers
\* is that history in order, all of it if the peer stays.
C10_DisconnectKeepsHistory ==
    /\ [][\A p \in Conns :
            /\ Leaves(p) =>
                  LET b == lesson_block_id[p] IN
                  /\ p \notin Range(board_connections'[b])
                  /\ board_states' = board_states
                  /\ lists' = lists
            /\ \A b \in DOMAIN board_states :
                  (Joins(p) /\ lesson_block_id'[p] = b) =>
                     /\ History(b)' = History(b)
                     /\ History(b) # <<>> =>
                           replay'[p] = [ref |-> board_states[b], idx |-> 1]
         ]_vars
    /\ [](\A p \in Conns : pc[p] # "new" =>
            LET h == HistoryAt(lesson_block_id[p], joined[p].at)
                r == Kind(delivered[p], FALSE)
            IN /\ \A i \in 1..Min(Len(r), Len(h)) : r[i].id = h[i].id
               /\ (pc[p] \in {"recv", "send"} /\ chan[p] # "gone") => Len(r) >= Len(h))

\* C10 witness: a WebSocket registered on a block that every earlier
\* participant had left and has been replayed the block's history
C10_Witness ==
    \E p \in Conns :
        /\ pc[p] = "recv"
        /\ joined[p].peers = {}
        /\ HistoryAt(lesson_block_id[p], joined[p].at) # <<>>
        /\ Ids(Kind(delivered[p], FALSE)) = Ids(HistoryAt(lesson_block_id[p], joined[p].at))

\* delivered[q] holds object n as a live broadcast
GotLive(q, n) ==
    \E i \in 1..Len(delivered[q]) : delivered[q][i].live /\ delivered[q][i].id = n

\* C1: what the replay delivers to a WebSocket is the history that existed
\* when it registered, in order, and no live broadcast is delivered to it
\* while its replay is unfinished or ahead of a replayed action.
C1_ReplayBeforeLive ==
    \A p \in Conns :
        /\ LET h == HistoryAt(lesson_block_id[p], joined[p].at)
               r == Kind(delivered[p], FALSE)
           IN \A i \in 1..Min(Len(r), Len(h)) : r[i].id = h[i].id
        /\ pc[p] = "replay" => Kind(delivered[p], TRUE) = <<>>
        /\ \A i, j \in 1..Len(delivered[p]) :
              i < j => ~(delivered[p][i].live /\ ~delivered[p][j].live)

\* C2: live broadcasts reach every WebSocket in the order in which the hub
\* received them (ids number the inbound objects in receipt order).
C2_BroadcastInReceiptOrder ==
    \A q \in Conns : \A i, j \in 1..Len(delivered[q]) :
        (i < j /\ delivered[q][i].live /\ delivered[q][j].live)
            => delivered[q][i].id < delivered[q][j].id

\* handler p is suspended in the send of object n to a stalled peer
StalledSend(p, n) ==
    IF pc[p] = "send"
    THEN bcast[p].data.id = n /\ chan[bcast[p].conn] = "stalled"
    ELSE FALSE

\* ... while r, another participant of the block, is listed and healthy
StalledSendBefore(p, n, r) ==
    IF StalledSend(p, n)
    THEN /\ r \in Range(board_connections[lesson_block_id[p]])
         /\ r # bcast[p].conn
         /\ Running(r) /\ chan[r] = "open"
    ELSE FALSE

\* C3: a send that never completes because its peer is stalled holds up
\* neither the sender's handler, which goes on past that send, nor the
\* delivery of the object to the other healthy participants of the block.
C3_StallIsLocal ==
    \A p \in Conns : \A n \in 1..MaxRecv :
        /\ [](StalledSend(p, n) => <>(~StalledSend(p, n)))
        /\ \A r \in Conns \ {p} :
              [](StalledSendBefore(p, n, r)
                   => <>(GotLive(r, n) \/ chan[r] # "open" \/ ~Running(r)))

\* C4: when a send of the broadcast loop of p meets a peer q that is gone,
\* the step p takes removes q from the participant list, leaves p listed
\* and its handler running, and leaves the history alone.
C4_SendFailureIsLocal ==
    [][\A p \in Conns :
         (pc[p] = "send" /\ chan[bcast[p].conn] = "gone" /\ bcast'[p] # bcast[p]) =>
            LET b == lesson_block_id[p] IN
            /\ bcast[p].conn \notin Range(board_connections'[b])
            /\ p \in Range(board_connections'[b])
            /\ pc'[p] \in {"send", "recv"}
            /\ lists' = lists /\ board_states' = board_states
      ]_vars

\* C5: an inbound message that is not a JSON object changes no history and
\* is not broadcast, and the handler that read it stays registered, keeps
\* its channel and waits for the next message.
C5_MalformedIsDropped ==
    [][\A p \in Conns :
         ReceiveMalformed(p) =>
            /\ lists' = lists /\ board_states' = board_states
            /\ delivered' = delivered /\ received' = received
            /\ board_connections' = board_connections
            /\ pc'[p] = "recv"
            /\ chan'[p] = chan[p]
      ]_vars

\* C9: when no send has raised and no peer is stalled, an object whose
\* broadcast loop has run to its end has been delivered, unchanged, to every
\* WebSocket that was listed when the hub received it, is not its sender,
\* and is still connected.
C9_FanOutComplete ==
    (~raised /\ \A q \in Conns : chan[q] # "stalled") =>
        \A n \in 1..Len(received) :
            LET e == received[n] IN
            (Running(e.from) /\ ~(pc[e.from] = "send" /\ bcast[e.from].data.id = n)) =>
                \A r \in e.regs \ {e.from} :
                    (Running(r) /\ chan[r] = "open") =>
                        \E i \in 1..Len(delivered[r]) :
                            delivered[r][i] = [id |-> n, type |-> e.type, live |-> TRUE]

\* C17: no WebSocket is delivered the same inbound object twice, replay and
\* live broadcast counted together.
C17_NoDuplicateDelivery ==
    \A p \in Conns : \A i, j \in 1..Len(delivered[p]) :
        i < j => delivered[p][i].id # delivered[p][j].id

\* C18: once a WebSocket has been delivered a clear as a live broadcast, its
\* replay delivers it no object that the hub received before that clear.
C18_NoStaleReplayAfterClear ==
    \A p \in Conns : \A i, j \in 1..Len(delivered[p]) :
        (i < j /\ delivered[p][i].live /\ delivered[p][i].type = "clear")
            => ~(~delivered[p][j].live /\ delivered[p][j].id < delivered[p][i].id)

\* C19: every WebSocket in a participant list belongs to a handler that is
\* still running.
C19_NoStaleConnection ==
    \A b \in DOMAIN board_connections : \A p \in Range(board_connections[b]) :
        Running(p)

\* the step is one of handler p: a resumption of its coroutine
Acts(p) ==
    \/ pc'[p] # pc[p]
    \/ bcast'[p] # bcast[p]
    \/ replay'[p] # replay[p]
    \/ /\ Len(received') > Len(received)
       /\ received'[Len(received')].from = p

\* C11: a step of a handler of one lesson block leaves the participant list
\* and the history of every other lesson block as they were, and no
\* WebSocket is ever delivered an object received on another lesson block.
C11_BlocksIndependent ==
    /\ [][\A p \in Conns : Acts(p) =>
            \A b \in DOMAIN board_connections \ {lesson_block_id'[p]} :
                /\ board_connections'[b] = board_connections[b]
                /\ History(b)' = History(b)
         ]_vars
    /\ [](\A p \in Conns : \A i \in 1..Len(delivered[p]) :
            received[delivered[p][i].id].block = lesson_block_id[p])

\* C11 witness: block B holds a drawing and a running participant after
\* block A, which has a running participant too, received a clear
C11_Witness ==
    /\ DOMAIN board_states = {"A", "B"}
    /\ \E n \in 1..Len(received) : received[n].block = "A" /\ received[n].type = "clear"
    /\ History("B") # <<>>
    /\ \E p, q \in Conns :
          /\ lesson_block_id[p] = "A" /\ Running(p)
          /\ lesson_block_id[q] = "B" /\ Running(q)

\* ==== app/services as functions ============================================
\* the relay as it is before any connection
BoardIdle ==
    /\ board_connections = [b \in {} |-> <<>>]
    /\ board_states = [b \in {} |-> 0]
    /\ lists = <<>>
    /\ pc = [p \in Conns |-> "new"]
    /\ lesson_block_id = [p \in Conns |-> "none"]
    /\ replay = [p \in Conns |-> NoReplay]
    /\ bcast = [p \in Conns |-> NoBcast]
    /\ chan = [p \in Conns |-> "open"]
    /\ received = <<>>
    /\ delivered = [p \in Conns |-> <<>>]
    /\ peer_events = 0
    /\ raised = FALSE
    /\ joined = [p \in Conns |-> [at |-> 0, peers |-> {}]]

\* one call of one of the three functions, with arguments in range
Calls ==
    [fn : {"calc_overload_index"}, args : Grid \X Grid \X Grid \X Grid,
     done : {FALSE}, result : {0}]
    \cup [fn : {"calc_readiness_index"}, args : Grid \X Grid \X Grid,
          done : {FALSE}, result : {0}]
    \cup [fn : {"make_recommendation"}, args : Indices \X Indices,
          done : {FALSE}, result : {0}]

CallInit ==
    /\ BoardIdle
    /\ lesson_blocks = <<>>
    /\ task_events = <<>>
    /\ neuro_profiles = <<>>
    /\ block_indices = <<>>
    /\ clock = 0
    /\ req = [r \in Requests |-> NoReq]
    /\ call \in Calls

Return(v) ==
    /\ call' = [call EXCEPT !.done = TRUE, !.result = v]
    /\ UNCHANGED <<boardVars, lesson_blocks, task_events, neuro_profiles,
                   block_indices, clock, req>>

CallOverload ==
    /\ call.fn = "calc_overload_index" /\ ~call.done
    /\ Return(calc_overload_index(call.args[1], call.args[2], call.args[3], call.args[4]))

CallReadiness ==
    /\ call.fn = "calc_readiness_index" /\ ~call.done
    /\ Return(calc_readiness_index(call.args[1], call.args[2], call.args[3]))

CallRecommend ==
    /\ call.fn = "make_recommendation" /\ ~call.done
    /\ Return(make_recommendation(call.args[1], call.args[2]))

CallNext == CallOverload \/ CallReadiness \/ CallRecommend

CallSpec == CallInit /\ [][CallNext]_vars

Returned(fn) == call.fn = fn /\ call.done

\* C15: make_recommendation returns the reduce-difficulty action whenever
\* overload_index > 0.7, whatever readiness_index is; otherwise the
\* increase-difficulty action when readiness_index > 0.7; otherwise the
\* maintain action.
C15_FirstMatchWins ==
    Returned("make_recommendation") =>
        LET o == call.args[1]
            r == call.args[2]
        IN /\ o * 10 > 7 * One => call.result = "reduce"
           /\ (o * 10 <= 7 * One /\ r * 10 > 7 * One) => call.result = "increase"
           /\ (o * 10 <= 7 * One /\ r * 10 <= 7 * One) => call.result = "keep"

\* C15 witness: both indices exceed 0.7 and the overload rule has won
C15_Witness ==
    /\ Returned("make_recommendation")
    /\ call.args[1] * 10 > 7 * One
    /\ call.args[2] * 10 > 7 * One
    /\ call.result = "reduce"

\* C16: for arguments in [0,1] both indices lie in [0,1] and equal their
\* weighted sums (0.4/0.3/0.2/0.1 and 0.5/0.3/0.2), which clamping to [0,1]
\* leaves alone; with all overload arguments 1 the result is at most 1.
C16_IndicesInRange ==
    /\ Returned("calc_overload_index") =>
          LET sum == 4 * (Unit - call.args[1]) + 3 * call.args[2]
                     + 2 * call.args[3] + call.args[4]
          IN /\ call.result \in Indices
             /\ sum <= One => call.result >= sum
             /\ sum >= 0 => call.result <= sum
    /\ Returned("calc_readiness_index") =>
          LET sum == 5 * call.args[1] + 3 * (Unit - call.args[2])
                     + 2 * (Unit - call.args[3])
          IN /\ call.result \in Indices
             /\ sum <= One => call.result >= sum
             /\ sum >= 0 => call.result <= sum

\* C16 witness: calc_overload_index has returned for all arguments equal to 1
C16_Witness ==
    /\ Returned("calc_overload_index")
    /\ call.args = <<Unit, Unit, Unit, Unit>>
    /\ call.result <= One

\* ==== the HTTP endpoints over the persistent store ==========================
\* lesson_blocks, task_events and block_indices are the tables in insertion
\* order; a block's id is its position in lesson_blocks; finished_at = 0 is
\* NULL; neuro_profiles maps the students that have a profile to it.
Students == {"s1", "s2"}
BlockIds == 1..NBlocks
EventTypes == {"answer", "skip"}

\* the profiles a student may have: a usable one, and one with
\* processing_speed 0
Profiles ==
    {[processing_speed |-> 1, sensory_sensitivity |-> Unit],
     [processing_speed |-> 0, sensory_sensitivity |-> Steps]}

\* durations of a block, in units of 1800/Unit seconds
Durations == {0, Unit + 1}

FinishInit ==
    /\ BoardIdle
    /\ lesson_blocks = <<>>
    /\ task_events = <<>>
    /\ \E S \in SUBSET Students : neuro_profiles \in [S -> Profiles]
    /\ block_indices = <<>>
    /\ clock = 0
    /\ req = [r \in Requests |-> NoReq]
    /\ call = NoCall

\* POST /api/lesson-blocks/start
StartBlock(student_id) ==
    /\ Len(lesson_blocks) < NBlocks
    /\ lesson_blocks' = Append(lesson_blocks,
                               [student_id |-> student_id, finished_at |-> 0])
    /\ UNCHANGED <<boardVars, task_events, neuro_profiles, block_indices,
                   clock, req, call>>

\* POST /api/events
CreateEvent(id, event_type, is_correct) ==
    /\ Len(task_events) < MaxEvents
    /\ event_type = "skip" => ~is_correct
    /\ task_events' = Append(task_events,
                             [lesson_block_id |-> id, event_type |-> event_type,
                              is_correct |-> is_correct])
    /\ UNCHANGED <<boardVars, lesson_blocks, neuro_profiles, block_indices,
                   clock, req, call>>

\* an HTTPException that always carries the generic detail
HTTPExceptionGeneric(r, status, detail) ==
    [req[r] EXCEPT !.pc = "done", !.status = status,
                   !.detail = "Internal Server Error"]

\* raise HTTPException(status, detail): the request ends with that response
HTTPException(r, status, detail) ==
    [req[r] EXCEPT !.pc = "done", !.status = status, !.detail = detail]

\* an exception that is not an HTTPException: the generic 500 response
ServerError(r) ==
    [req[r] EXCEPT !.pc = "done", !.status = 500,
                   !.detail = "Internal Server Error"]

\* db.query(LessonBlock).filter(id == block_id).first()
FinishLookup(r, id) ==
    /\ req[r].pc = "idle"
    /\ req' = [req EXCEPT ![r] =
                  IF id \notin DOMAIN lesson_blocks
                  THEN HTTPException(r, 404, "lesson block not found")
                  ELSE [req[r] EXCEPT !.pc = "events", !.block_id = id,
                                      !.student_id = lesson_blocks[id].student_id]]
    /\ UNCHANGED <<boardVars, storeVars, clock, call>>

EventsOf(id) == SelectSeq(task_events, LAMBDA e : e.lesson_block_id = id)

Count(events, Test(_)) == Len(SelectSeq(events, Test))

\* the outcomes of compute_block_metrics(events): accuracy and skip_rate
\* rounded down to the grid, a duration; with no answer event accuracy 0 or
\* an exception
compute_block_metrics(events) ==
    LET answers == Count(events, LAMBDA e : e.event_type = "answer")
        correct == Count(events, LAMBDA e : e.event_type = "answer" /\ e.is_correct)
        skips == Count(events, LAMBDA e : e.event_type = "skip")
        accuracies == IF answers = 0 THEN {0, -1}
                      ELSE {(correct * Unit) \div answers}
    IN [accuracy : accuracies, skip_rate : {(skips * Unit) \div Len(events)},
        duration : Durations]

\* db.query(TaskEvent).filter(lesson_block_id == block_id).all() and
\* compute_block_metrics
FinishEvents(r) ==
    /\ req[r].pc = "events"
    /\ LET events == EventsOf(req[r].block_id)
       IN IF events = <<>>
          THEN req' = [req EXCEPT ![r] = HTTPException(r, 400, "no events")]
          ELSE \E m \in compute_block_metrics(events) :
                  req' = [req EXCEPT ![r] =
                            IF m.accuracy < 0 THEN ServerError(r)
                            ELSE [req[r] EXCEPT !.pc = "profile",
                                                !.accuracy = m.accuracy,
                                                !.skip_rate = m.skip_rate,
                                                !.duration = m.duration]]
    /\ UNCHANGED <<boardVars, storeVars, clock, call>>

\* normalize_time(duration, processing_speed): the duration scaled inversely
\* by the speed and clamped; -1 for the exception on a speed that is not
\* positive
normalize_time(duration, processing_speed) ==
    IF processing_speed <= 0 THEN -1
    ELSE Min(Unit, duration \div processing_speed)

Abs(x) == IF x < 0 THEN -x ELSE x

\* db.query(NeuroProfile).filter(student_id == block.student_id).first(), then
\* the indices
FinishProfile(r) ==
    /\ req[r].pc = "profile"
    /\ req' = [req EXCEPT ![r] =
          IF req[r].student_id \notin DOMAIN neuro_profiles
          THEN HTTPException(r, 400, "neuro profile not found")
          ELSE LET profile == neuro_profiles[req[r].student_id]
                   norm_time == normalize_time(req[r].duration, profile.processing_speed)
                   sensory_mismatch == Abs(Steps - (Unit - profile.sensory_sensitivity))
                   fatigue_proxy == Min(req[r].duration, Unit)
               IN IF norm_time < 0 THEN ServerError(r)
                  ELSE [req[r] EXCEPT
                          !.pc = "commit",
                          !.overload = calc_overload_index(req[r].accuracy, norm_time,
                                           req[r].skip_rate, sensory_mismatch),
                          !.readiness = calc_readiness_index(req[r].accuracy,
                                            norm_time, fatigue_proxy)]]
    /\ UNCHANGED <<boardVars, storeVars, clock, call>>

\* a table without a primary key
NoPrimaryKey(table, id) == FALSE

\* BlockIndex.lesson_block_id is the primary key: a second row for the block
\* is refused
PrimaryKeyViolation(table, id) ==
    \E i \in DOMAIN table : table[i].lesson_block_id = id

\* a finish that leaves finished_at alone
StampNothing(blocks, id, now) == blocks

\* block.finished_at = datetime.utcnow()
Stamp(blocks, id, now) == [blocks EXCEPT ![id].finished_at = now]

\* a failed commit rolls the transaction back
Rollback(before, pending) == before

\* block.finished_at = datetime.utcnow(); db.add(idx); db.commit(); then the
\* recommendation and the response
FinishCommit(r) ==
    /\ req[r].pc = "commit"
    /\ clock' = clock + 1
    /\ LET id == req[r].block_id
           stamped == Stamp(lesson_blocks, id, clock + 1)
           idx == [lesson_block_id |-> id, overload_index |-> req[r].overload,
                   readiness_index |-> req[r].readiness]
       IN IF PrimaryKeyViolation(block_indices, id)
          THEN /\ lesson_blocks' = Rollback(lesson_blocks, stamped)
               /\ block_indices' = block_indices
               /\ req' = [req EXCEPT ![r] = ServerError(r)]
          ELSE /\ lesson_blocks' = stamped
               /\ block_indices' = Append(block_indices, idx)
               /\ req' = [req EXCEPT ![r] =
                            [req[r] EXCEPT
                               !.pc = "done", !.status = 200, !.detail = "ok",
                               !.recommendation =
                                   make_recommendation(req[r].overload, req[r].readiness)]]
    /\ UNCHANGED <<boardVars, task_events, neuro_profiles, call>>

FinishNext ==
    \/ \E s \in Students : StartBlock(s)
    \/ \E id \in BlockIds, t \in EventTypes, c \in BOOLEAN : CreateEvent(id, t, c)
    \/ \E r \in Requests, id \in BlockIds : FinishLookup(r, id)
    \/ \E r \in Requests : FinishEvents(r)
    \/ \E r \in Requests : FinishProfile(r)
    \/ \E r \in Requests : FinishCommit(r)

FinishSpec == FinishInit /\ [][FinishNext]_vars

IndexRows(id) == {i \in DOMAIN block_indices : block_indices[i].lesson_block_id = id}

Ends(r) == req[r].pc # "done" /\ req'[r].pc = "done"

\* C12: whatever finish calls have run on a block, in sequence or
\* concurrently, the block has at most one BlockIndex row, and no step
\* changes the overload_index or readiness_index of an existing row.
C12_AtMostOneIndex ==
    /\ [](\A id \in BlockIds : Cardinality(IndexRows(id)) <= 1)
    /\ [][\A i \in DOMAIN block_indices :
            /\ i \in DOMAIN block_indices'
            /\ block_indices'[i] = block_indices[i]]_vars

\* C12 witness: two finish calls on one block have ended, the later one after
\* computing other indices than the recorded ones
C12_Witness ==
    \E r, q \in Requests :
        /\ req[r].pc = "done" /\ req[r].status = 200
        /\ req[q].pc = "done" /\ req[q].status = 500
        /\ req[q].block_id = req[r].block_id
        /\ <<req[q].overload, req[q].readiness>> # <<req[r].overload, req[r].readiness>>
        /\ req[q].overload > 0

\* C13: in every state of the store a block has a BlockIndex row if and only
\* if its finished_at is set.
C13_IndexIffFinished ==
    /\ \A id \in DOMAIN lesson_blocks :
          (lesson_blocks[id].finished_at # 0) <=> (IndexRows(id) # {})
    /\ \A i \in DOMAIN block_indices :
          block_indices[i].lesson_block_id \in DOMAIN lesson_blocks

\* C13 witness: one finish call has committed and a later one on the same
\* block has failed at its commit, while another block is unfinished
C13_Witness ==
    /\ \E r, q \in Requests :
          /\ req[r].pc = "done" /\ req[r].status = 200
          /\ req[q].pc = "done" /\ req[q].status = 500
          /\ req[q].overload > 0
          /\ req[q].block_id = req[r].block_id
          /\ lesson_blocks[req[r].block_id].finished_at # 0
    /\ \E id \in DOMAIN lesson_blocks : lesson_blocks[id].finished_at = 0

\* C14: a finish call that ends because the block does not exist, because
\* the block has no events, or because the student has no profile answers
\* with the detail of that condition, and no step of a call that fails
\* changes the store.
C14_FailuresAreSpecific ==
    [][\A r \in Requests :
        /\ (Ends(r) /\ req'[r].status # 200) => storeVars' = storeVars
        /\ (req'[r] # req[r] /\ req'[r].pc # "done") => storeVars' = storeVars
        /\ (Ends(r) /\ req[r].pc = "idle") =>
              /\ req'[r].status = 404
              /\ req'[r].detail = "lesson block not found"
        /\ (Ends(r) /\ req[r].pc = "events" /\ EventsOf(req[r].block_id) = <<>>) =>
              /\ req'[r].status = 400
              /\ req'[r].detail = "no events"
        /\ (Ends(r) /\ req[r].pc = "profile"
             /\ req[r].student_id \notin DOMAIN neuro_profiles) =>
              /\ req'[r].status = 400
              /\ req'[r].detail = "neuro profile not found"]_vars

\* C14 witness: one call has ended on a block without events and another on
\* a missing profile, with events and a block in the store
C14_Witness ==
    \E r, q \in Requests :
        /\ req[r].pc = "done" /\ req[r].detail = "no events"
        /\ req[q].pc = "done" /\ req[q].detail = "neuro profile not found"
        /\ task_events # <<>>
        /\ block_indices = <<>>

====
